---- MODULE Spec2Model ----
(***************************************************************************)
(* hamilton.driver.Driver: validate_inputs, raw_execute, execute,          *)
(* visualize_execution and has_cycles, over a FunctionGraph whose          *)
(* traversal, cycle check and memoized execution follow the specification  *)
(* of the graph engine.                                                    *)
(***************************************************************************)
EXTENDS Integers, Sequences, FiniteSets, TLC

VARIABLES
    graph,          \* self.graph: name -> Node
    config,         \* self.graph.config
    pc,             \* position inside Driver.execute / raw_execute
    frame,          \* which method owns the running sub-call: raw, viz, cyc
    final_vars,     \* argument of execute
    overrides,      \* argument of execute
    display_graph,  \* argument of execute
    inputs,         \* argument of execute
    todo,           \* get_upstream_nodes: vertices still to visit
    visited,        \* get_upstream_nodes: vertices visited
    nodes,          \* raw_execute local
    user_nodes,     \* raw_execute local
    sub_nodes,      \* local of visualize_execution / has_cycles
    sub_user_nodes, \* local of visualize_execution / has_cycles
    sub_inputs,     \* inputs argument of visualize_execution
    entry,          \* the public method the caller invoked
    cycles,         \* value returned by has_cycles
    all_inputs,     \* validate_inputs local
    pending,        \* validate_inputs: user nodes the for loop has not reached
    errors,         \* validate_inputs local
    memo,           \* raw_execute local memoized_computation
    processed,      \* Graph.execute: vertices handled
    outputs,        \* raw_execute result
    errKind,        \* kind of the exception that ended the call
    errMsgs,        \* messages of the combined validation error
    errCount,       \* the count the combined validation error reports
    validated,      \* history: validate_inputs of raw_execute returned normally
    computeCount,   \* history: invocations of each vertex's compute
    writes,         \* history: writes to memo per name
    received        \* history: kwargs each compute was invoked with

vars == <<graph, config, pc, frame, final_vars, overrides, display_graph, inputs,
          todo, visited, nodes, user_nodes, sub_nodes, sub_user_nodes,
          sub_inputs, entry, cycles,
          all_inputs, pending, errors, memo, processed, outputs,
          errKind, errMsgs, errCount, validated, computeCount, writes, received>>

----------------------------------------------------------------------------
(* Bounds of the model *)

\* largest number of names in final_vars
MaxFinal == 2
\* largest number of names in overrides
MaxOverrides == 1

----------------------------------------------------------------------------
(* Values and mappings *)

EmptyMap == <<>>

NoneVal == [tag |-> "None", v |-> 0]
IntVal == [tag |-> "int", v |-> 1]
StrVal == [tag |-> "str", v |-> 2]
OverrideVal == [tag |-> "str", v |-> 9]

\* values a caller puts in config or runtime inputs
LeafVals == {NoneVal, IntVal, StrVal}

\* all mappings from a subset of keys to vals
PartialMaps(keys, vals) == UNION {[d -> vals] : d \in SUBSET keys}

\* lexicographic order of the one-letter names
NameOrder == <<"a", "b", "c", "d", "e", "p", "q", "x", "y", "z">>

Ord(name) == CHOOSE i \in 1..Len(NameOrder) : NameOrder[i] = name

REQUIRED == "REQUIRED"
OPTIONAL == "OPTIONAL"

Leaf == [type |-> "int", user_defined |-> TRUE, input_types |-> EmptyMap]

Fn(params) == [type |-> "int", user_defined |-> FALSE, input_types |-> params]

Req(name) == name :> <<"int", REQUIRED>>

Opt(name) == name :> <<"int", OPTIONAL>>

\* x and y both need a, z takes b with a default; y and z both depend on x
DiamondGraph ==
    ("a" :> Leaf) @@ ("b" :> Leaf)
    @@ ("x" :> Fn(Req("a")))
    @@ ("y" :> Fn(Req("x") @@ Opt("a")))
    @@ ("z" :> Fn(Req("x") @@ Opt("b")))

\* c depends on b, b depends on a, d is unrelated, e is a leaf nobody consumes
ChainGraph ==
    ("a" :> Fn(EmptyMap)) @@ ("b" :> Fn(Req("a"))) @@ ("c" :> Fn(Req("b")))
    @@ ("d" :> Fn(EmptyMap)) @@ ("e" :> Leaf)

\* p and q depend on each other; p needs the leaves a and b
CycleGraph ==
    ("a" :> Leaf) @@ ("b" :> Leaf)
    @@ ("p" :> Fn(Req("q") @@ Req("a") @@ Req("b")))
    @@ ("q" :> Fn(Req("p")))

Graphs == {DiamondGraph, ChainGraph, CycleGraph}

Leaves(g) == {n \in DOMAIN g : g[n].user_defined}

\* node.dependencies
dependencies(g, n) == DOMAIN g[n].input_types

\* node.depended_on_by, in the order the graph was built
depended_on_by(g, n) ==
    SelectSeq(NameOrder, LAMBDA m : m \in DOMAIN g /\ n \in DOMAIN g[m].input_types)

\* the parameters of n declared REQUIRED
required_dependencies(g, n) ==
    {d \in dependencies(g, n) : g[n].input_types[d][2] = REQUIRED}

----------------------------------------------------------------------------
(* FunctionGraph *)

\* FunctionGraph.combine_config_and_inputs: overlap is an error
combine_config_and_inputs(cfg, inp) ==
    [clash |-> DOMAIN cfg \cap DOMAIN inp # {}, value |-> cfg @@ inp]

\* a traversal that follows every parameter, the optional ones too
upstream_visit_all(g, n, seen, work) ==
    [visited |-> seen \cup {n},
     todo |-> (work \ {n}) \cup (dependencies(g, n) \ (seen \cup {n}))]

\* one visit of get_upstream_nodes: n joins the closure, its REQUIRED
\* parameters not yet visited are still to visit
upstream_visit(g, n, seen, work) ==
    [visited |-> seen \cup {n},
     todo |-> (work \ {n}) \cup (required_dependencies(g, n) \ (seen \cup {n}))]

\* the user-supplied part of a closure
upstream_user_nodes(g, closure) == {n \in closure : g[n].user_defined}

RECURSIVE reachable(_, _, _)
\* vertices of subset reachable from the vertices of acc along dependencies
reachable(g, subset, acc) ==
    LET next == acc \cup UNION {dependencies(g, n) \cap subset : n \in acc}
    IN IF next = acc THEN acc ELSE reachable(g, subset, next)

\* FunctionGraph.has_cycles over the closure nodes_ + user_nodes_
graph_has_cycles(g, nodes_, user_nodes_) ==
    LET subset == nodes_ \cup user_nodes_
    IN \E n \in subset : n \in reachable(g, subset, dependencies(g, n) \cap subset)

----------------------------------------------------------------------------
(* Adapter *)

\* adapter.check_input_type
check_input_type(type, value) == value.tag = type

\* a vertex's compute: a pure function of its name and keyword arguments
RECURSIVE sum_values(_)
sum_values(kwargs) ==
    IF DOMAIN kwargs = {} THEN 0
    ELSE LET k == CHOOSE k \in DOMAIN kwargs : TRUE
         IN kwargs[k].v + sum_values([j \in DOMAIN kwargs \ {k} |-> kwargs[j]])

compute(name, kwargs) == [tag |-> "int", v |-> 10 + Ord(name) + sum_values(kwargs)]

----------------------------------------------------------------------------
(* Driver.validate_inputs *)

\* a test that takes any dependent for a requiring one
node_is_required_by_anything_any(g, n) == Len(depended_on_by(g, n)) > 0

\* Driver._node_is_required_by_anything
node_is_required_by_anything(g, n) ==
    LET downstream == depended_on_by(g, n)
    IN \E i \in 1..Len(downstream) : g[downstream[i]].input_types[n][2] = REQUIRED

\* 'Error: Required input {name} not provided for nodes: {[...]}.'
required_error(g, n) ==
    [kind |-> "Required", name |-> n, nodes |-> depended_on_by(g, n),
     type |-> g[n].type, got |-> NoneVal]

\* 'Error: Type requirement mismatch. Expected {name}:{type} got {value} instead.'
type_error(g, n, value) ==
    [kind |-> "Type", name |-> n, nodes |-> <<>>, type |-> g[n].type, got |-> value]

\* a condition that checks None like any other value
type_mismatch_no_exempt(type, value) == ~check_input_type(type, value)

\* the condition of the elif: a supplied value that is not None and fails the check
type_mismatch(type, value) == value # NoneVal /\ ~check_input_type(type, value)

\* body of the for loop, for one user node
validate_node(g, n, all, errs) ==
    IF n \notin DOMAIN all
    THEN IF node_is_required_by_anything(g, n)
         THEN Append(errs, required_error(g, n))
         ELSE errs
    ELSE IF type_mismatch(g[n].type, all[n])
         THEN Append(errs, type_error(g, n, all[n]))
         ELSE errs

\* order of two messages as strings: 'Error: R...' < 'Error: T...', then the name
msg_less(m1, m2) ==
    \/ m1.kind = "Required" /\ m2.kind = "Type"
    \/ m1.kind = m2.kind /\ Ord(m1.name) < Ord(m2.name)

RECURSIVE insert_sorted(_, _)
insert_sorted(m, s) ==
    IF s = <<>> THEN <<m>>
    ELSE IF msg_less(m, Head(s)) THEN <<m>> \o s
    ELSE <<Head(s)>> \o insert_sorted(m, Tail(s))

RECURSIVE sorted(_)
sorted(s) == IF s = <<>> THEN <<>> ELSE insert_sorted(Head(s), sorted(Tail(s)))

\* the errors left in the order the loop found them
sort_errors_unsorted(errs) == errs

\* errors.sort()
sort_errors(errs) == sorted(errs)

\* a merge in which runtime inputs silently win over config
validate_all_inputs_merged(cfg, inp) == [clash |-> FALSE, value |-> inp @@ cfg]

\* all_inputs of validate_inputs
validate_all_inputs(cfg, inp) == combine_config_and_inputs(cfg, inp)

----------------------------------------------------------------------------
(* Driver.raw_execute *)

\* a raw_execute that goes from the closure straight to the computation
after_upstream_skip(fr) ==
    IF fr = "cyc" THEN "has_cycles" ELSE IF fr = "raw" THEN "memo" ELSE "validate"

\* where a method goes once get_upstream_nodes has returned
after_upstream(fr) == IF fr = "cyc" THEN "has_cycles" ELSE "validate"

\* a raw_execute that checks for cycles on every call
display_flow_always(dg) == TRUE

\* if display_graph: the deprecated flow that renders and checks for cycles
display_flow(dg) == dg

\* a raw_execute that forgets to hand the overrides on
graph_execute_overrides_dropped(ov) == EmptyMap

\* the overrides raw_execute hands to graph.execute
graph_execute_overrides(ov) == ov

\* a memo that starts out holding the config
new_memo_seeded == config

\* memoized_computation = dict()
new_memo == EmptyMap

\* Graph.execute: a vertex may run once every vertex it depends on has been handled
ready(g, closure, done, n) ==
    /\ n \in closure \ done
    /\ (dependencies(g, n) \cap closure) \subseteq done

\* Graph.execute: handling one vertex
execute_vertex(g, n, mem, ov, leaf_values) ==
    IF n \in DOMAIN ov
    THEN [memo |-> (n :> ov[n]) @@ mem, wrote |-> TRUE, computed |-> FALSE,
          kwargs |-> EmptyMap, error |-> FALSE]
    ELSE IF g[n].user_defined
    THEN IF n \in DOMAIN leaf_values
         THEN [memo |-> (n :> leaf_values[n]) @@ mem, wrote |-> TRUE, computed |-> FALSE,
               kwargs |-> EmptyMap, error |-> FALSE]
         ELSE [memo |-> mem, wrote |-> FALSE, computed |-> FALSE,
               kwargs |-> EmptyMap, error |-> node_is_required_by_anything(g, n)]
    ELSE LET kwargs == [d \in dependencies(g, n) \cap DOMAIN mem |-> mem[d]]
         IN [memo |-> (n :> compute(n, kwargs)) @@ mem, wrote |-> TRUE, computed |-> TRUE,
             kwargs |-> kwargs, error |-> FALSE]

\* outputs = {c: memoized_computation[c] for c in final_vars}
select_outputs(mem, fv) == [c \in fv |-> mem[c]]

----------------------------------------------------------------------------
(* The state machine *)

ZeroCount == [n \in DOMAIN graph |-> 0]

\* no call is running: every local of the previous call is gone
NoCall ==
    /\ pc = "idle" /\ frame = "none" /\ entry = "none"
    /\ final_vars = {} /\ overrides = EmptyMap /\ display_graph = FALSE
    /\ inputs = EmptyMap /\ sub_inputs = EmptyMap
    /\ todo = {} /\ visited = {} /\ nodes = {} /\ user_nodes = {}
    /\ sub_nodes = {} /\ sub_user_nodes = {} /\ cycles = FALSE
    /\ all_inputs = EmptyMap /\ pending = {} /\ errors = <<>>
    /\ memo = EmptyMap /\ processed = {} /\ outputs = EmptyMap
    /\ errKind = "none" /\ errMsgs = <<>> /\ errCount = 0
    /\ validated = FALSE
    /\ computeCount = ZeroCount /\ writes = ZeroCount /\ received = EmptyMap

\* Driver.__init__: a graph built from the modules, and its config
Init ==
    /\ graph \in Graphs
    /\ config \in PartialMaps(Leaves(graph), LeafVals)
    /\ NoCall

FinalVarChoices == {fv \in SUBSET DOMAIN graph : fv # {} /\ Cardinality(fv) <= MaxFinal}

OverrideChoices ==
    UNION {[d -> {OverrideVal}] :
           d \in {d \in SUBSET DOMAIN graph : Cardinality(d) <= MaxOverrides}}

InputChoices == PartialMaps(Leaves(graph), LeafVals)

Unchanged_call == UNCHANGED <<graph, config, final_vars, overrides, display_graph, inputs, entry>>

Unchanged_validate == UNCHANGED <<all_inputs, pending, errors>>

Unchanged_upstream == UNCHANGED <<todo, visited>>

Unchanged_locals == UNCHANGED <<nodes, user_nodes, sub_nodes, sub_user_nodes, sub_inputs, cycles>>

Unchanged_exec == UNCHANGED <<memo, processed, outputs, computeCount, writes, received>>

Unchanged_err == UNCHANGED <<errKind, errMsgs, errCount>>

\* Driver.execute(final_vars, overrides, display_graph, inputs) enters raw_execute
Execute ==
    /\ pc = "idle"
    /\ \E fv \in FinalVarChoices, ov \in OverrideChoices, dg \in BOOLEAN, inp \in InputChoices :
         /\ final_vars' = fv /\ overrides' = ov /\ display_graph' = dg /\ inputs' = inp
         /\ todo' = fv
    /\ visited' = {}
    /\ pc' = "upstream" /\ frame' = "raw" /\ entry' = "execute"
    /\ UNCHANGED <<graph, config, validated>>
    /\ Unchanged_locals /\ Unchanged_validate /\ Unchanged_exec /\ Unchanged_err

\* Driver.visualize_execution(final_vars, ..., inputs) called by the user
VisualizeExecution ==
    /\ pc = "idle"
    /\ \E fv \in FinalVarChoices, inp \in InputChoices :
         final_vars' = fv /\ sub_inputs' = inp /\ todo' = fv
    /\ visited' = {}
    /\ pc' = "upstream" /\ frame' = "viz" /\ entry' = "visualize_execution"
    /\ UNCHANGED <<graph, config, overrides, display_graph, inputs, validated>>
    /\ UNCHANGED <<nodes, user_nodes, sub_nodes, sub_user_nodes, cycles>>
    /\ Unchanged_validate /\ Unchanged_exec /\ Unchanged_err

\* Driver.has_cycles(final_vars) called by the user
HasCyclesCall ==
    /\ pc = "idle"
    /\ \E fv \in FinalVarChoices : final_vars' = fv /\ todo' = fv
    /\ visited' = {}
    /\ pc' = "upstream" /\ frame' = "cyc" /\ entry' = "has_cycles"
    /\ UNCHANGED <<graph, config, overrides, display_graph, inputs, validated>>
    /\ Unchanged_locals /\ Unchanged_validate /\ Unchanged_exec /\ Unchanged_err

\* get_upstream_nodes visits one vertex
UpstreamStep ==
    /\ pc = "upstream" /\ todo # {}
    /\ \E n \in todo :
         LET r == upstream_visit(graph, n, visited, todo)
         IN visited' = r.visited /\ todo' = r.todo
    /\ UNCHANGED <<pc, frame, validated>>
    /\ Unchanged_call /\ Unchanged_locals /\ Unchanged_validate
    /\ Unchanged_exec /\ Unchanged_err

\* get_upstream_nodes returns (nodes, user_nodes) to the method that called it
UpstreamReturn ==
    /\ pc = "upstream" /\ todo = {}
    /\ pc' = after_upstream(frame)
    /\ IF frame = "raw"
       THEN /\ nodes' = visited
            /\ user_nodes' = upstream_user_nodes(graph, visited)
            /\ UNCHANGED <<sub_nodes, sub_user_nodes>>
       ELSE /\ sub_nodes' = visited
            /\ sub_user_nodes' = upstream_user_nodes(graph, visited)
            /\ UNCHANGED <<nodes, user_nodes>>
    /\ UNCHANGED <<frame, validated, sub_inputs, cycles>>
    /\ Unchanged_call /\ Unchanged_upstream /\ Unchanged_validate
    /\ Unchanged_exec /\ Unchanged_err

\* validate_inputs: combine config and inputs, start the loop over user_nodes
ValidateCombine ==
    /\ pc = "validate"
    /\ LET r == validate_all_inputs(config, IF frame = "raw" THEN inputs ELSE sub_inputs)
       IN IF r.clash
          THEN /\ pc' = "error" /\ errKind' = "clash"
               /\ UNCHANGED <<errMsgs, errCount>>
               /\ Unchanged_validate
          ELSE /\ pc' = "vloop"
               /\ all_inputs' = r.value
               /\ pending' = (IF frame = "raw" THEN user_nodes ELSE sub_user_nodes)
               /\ errors' = <<>>
               /\ Unchanged_err
    /\ UNCHANGED <<frame, validated>>
    /\ Unchanged_call /\ Unchanged_locals /\ Unchanged_upstream /\ Unchanged_exec

\* validate_inputs: one iteration of the loop, in the set's iteration order
ValidateStep ==
    /\ pc = "vloop" /\ pending # {}
    /\ \E n \in pending :
         /\ errors' = validate_node(graph, n, all_inputs, errors)
         /\ pending' = pending \ {n}
    /\ UNCHANGED <<pc, frame, validated, all_inputs>>
    /\ Unchanged_call /\ Unchanged_locals /\ Unchanged_upstream
    /\ Unchanged_exec /\ Unchanged_err

\* validate_inputs: after the loop, raise the combined error or return
ValidateFinish ==
    /\ pc = "vloop" /\ pending = {}
    /\ IF errors # <<>>
       THEN /\ pc' = "error" /\ errKind' = "validation"
            /\ errMsgs' = sort_errors(errors)
            /\ errCount' = Len(errors)
            /\ UNCHANGED <<frame, validated, todo, visited, sub_inputs>>
       ELSE /\ Unchanged_err
            /\ IF frame = "raw"
               THEN /\ validated' = TRUE
                    /\ IF display_flow(display_graph)
                       THEN /\ pc' = "upstream" /\ frame' = "viz"
                            /\ sub_inputs' = EmptyMap
                            /\ todo' = final_vars /\ visited' = {}
                       ELSE /\ pc' = "memo"
                            /\ UNCHANGED <<frame, todo, visited, sub_inputs>>
               ELSE /\ pc' = "display"
                    /\ UNCHANGED <<frame, validated, todo, visited, sub_inputs>>
    /\ UNCHANGED <<nodes, user_nodes, sub_nodes, sub_user_nodes, cycles>>
    /\ Unchanged_call /\ Unchanged_validate /\ Unchanged_exec

\* visualize_execution: graph.display, then back to the caller
Display ==
    /\ pc = "display"
    /\ IF entry = "execute"
       THEN pc' = "upstream" /\ frame' = "cyc" /\ todo' = final_vars /\ visited' = {}
       ELSE pc' = "done" /\ UNCHANGED <<frame, todo, visited>>
    /\ UNCHANGED validated
    /\ Unchanged_call /\ Unchanged_locals /\ Unchanged_validate
    /\ Unchanged_exec /\ Unchanged_err

\* has_cycles: graph.has_cycles(nodes, user_nodes); raw_execute raises on True
HasCycles ==
    /\ pc = "has_cycles"
    /\ LET r == graph_has_cycles(graph, sub_nodes, sub_user_nodes)
       IN /\ cycles' = r
          /\ IF entry = "has_cycles"
             THEN pc' = "done" /\ Unchanged_err
             ELSE IF r
             THEN pc' = "error" /\ errKind' = "cycle" /\ UNCHANGED <<errMsgs, errCount>>
             ELSE pc' = "memo" /\ Unchanged_err
    /\ UNCHANGED <<frame, validated, nodes, user_nodes, sub_nodes, sub_user_nodes, sub_inputs>>
    /\ Unchanged_call /\ Unchanged_upstream /\ Unchanged_validate /\ Unchanged_exec

\* raw_execute creates the memo and calls graph.execute
CreateMemo ==
    /\ pc = "memo"
    /\ pc' = "exec" /\ frame' = "raw"
    /\ memo' = new_memo /\ processed' = {}
    /\ UNCHANGED <<validated, outputs, computeCount, writes, received>>
    /\ Unchanged_call /\ Unchanged_locals /\ Unchanged_upstream
    /\ Unchanged_validate /\ Unchanged_err

\* graph.execute handles one vertex of nodes
ExecuteStep ==
    /\ pc = "exec"
    /\ \E n \in nodes :
         /\ ready(graph, nodes, processed, n)
         /\ LET r == execute_vertex(graph, n, memo, graph_execute_overrides(overrides),
                                    combine_config_and_inputs(config, inputs).value)
            IN IF r.error
               THEN /\ pc' = "error" /\ errKind' = "execution"
                    /\ UNCHANGED <<errMsgs, errCount>>
                    /\ Unchanged_exec
               ELSE /\ memo' = r.memo
                    /\ processed' = processed \cup {n}
                    /\ writes' = IF r.wrote THEN [writes EXCEPT ![n] = @ + 1] ELSE writes
                    /\ computeCount' =
                         IF r.computed THEN [computeCount EXCEPT ![n] = @ + 1]
                         ELSE computeCount
                    /\ received' = IF r.computed THEN (n :> r.kwargs) @@ received
                                   ELSE received
                    /\ UNCHANGED <<pc, outputs>>
                    /\ Unchanged_err
    /\ UNCHANGED <<frame, validated>>
    /\ Unchanged_call /\ Unchanged_locals /\ Unchanged_upstream /\ Unchanged_validate

\* graph.execute invokes a compute that raises: the call fails
ExecuteRaises ==
    /\ pc = "exec"
    /\ \E n \in nodes :
         /\ ready(graph, nodes, processed, n)
         /\ execute_vertex(graph, n, memo, graph_execute_overrides(overrides),
                           combine_config_and_inputs(config, inputs).value).computed
         /\ computeCount' = [computeCount EXCEPT ![n] = @ + 1]
    /\ pc' = "error" /\ errKind' = "execution"
    /\ UNCHANGED <<frame, validated, errMsgs, errCount>>
    /\ UNCHANGED <<memo, processed, outputs, writes, received>>
    /\ Unchanged_call /\ Unchanged_locals /\ Unchanged_upstream /\ Unchanged_validate

\* graph.execute over a cyclic closure: no vertex can run, the call fails
ExecuteStuck ==
    /\ pc = "exec"
    /\ nodes \ processed # {}
    /\ \A n \in nodes : ~ready(graph, nodes, processed, n)
    /\ pc' = "error" /\ errKind' = "execution"
    /\ UNCHANGED <<frame, validated, errMsgs, errCount>>
    /\ Unchanged_call /\ Unchanged_locals /\ Unchanged_upstream
    /\ Unchanged_validate /\ Unchanged_exec

\* graph.execute returns; raw_execute picks the requested values, execute
\* hands them to adapter.build_result
SelectOutputs ==
    /\ pc = "exec"
    /\ nodes \subseteq processed
    /\ IF final_vars \subseteq DOMAIN memo
       THEN pc' = "done" /\ outputs' = select_outputs(memo, final_vars) /\ Unchanged_err
       ELSE pc' = "error" /\ errKind' = "KeyError" /\ UNCHANGED <<outputs, errMsgs, errCount>>
    /\ UNCHANGED <<frame, validated, memo, processed, computeCount, writes, received>>
    /\ Unchanged_call /\ Unchanged_locals /\ Unchanged_upstream /\ Unchanged_validate

\* the call has returned or raised: its locals are discarded
Return ==
    /\ pc \in {"done", "error"}
    /\ pc' = "idle" /\ frame' = "none" /\ entry' = "none"
    /\ final_vars' = {} /\ overrides' = EmptyMap /\ display_graph' = FALSE
    /\ inputs' = EmptyMap /\ sub_inputs' = EmptyMap
    /\ todo' = {} /\ visited' = {} /\ nodes' = {} /\ user_nodes' = {}
    /\ sub_nodes' = {} /\ sub_user_nodes' = {} /\ cycles' = FALSE
    /\ all_inputs' = EmptyMap /\ pending' = {} /\ errors' = <<>>
    /\ memo' = EmptyMap /\ processed' = {} /\ outputs' = EmptyMap
    /\ errKind' = "none" /\ errMsgs' = <<>> /\ errCount' = 0
    /\ validated' = FALSE
    /\ computeCount' = ZeroCount /\ writes' = ZeroCount /\ received' = EmptyMap
    /\ UNCHANGED <<graph, config>>

Next ==
    \/ Execute
    \/ VisualizeExecution
    \/ HasCyclesCall
    \/ UpstreamStep
    \/ UpstreamReturn
    \/ ValidateCombine
    \/ ValidateStep
    \/ ValidateFinish
    \/ Display
    \/ HasCycles
    \/ CreateMemo
    \/ ExecuteStep
    \/ ExecuteRaises
    \/ ExecuteStuck
    \/ SelectOutputs
    \/ Return

Spec == Init /\ [][Next]_vars

----------------------------------------------------------------------------
(* Properties of validate_inputs *)

\* the arguments of the validate_inputs call that is running or has just ended
CurUserNodes == IF frame = "raw" THEN user_nodes ELSE sub_user_nodes

CurInputs == IF frame = "raw" THEN inputs ELSE sub_inputs

\* validate_inputs is in its loop, or has just raised its combined error
InValidation == pc = "vloop" \/ (pc = "error" /\ errKind = "validation")

\* the user nodes the loop has gone through
Examined == CurUserNodes \ pending

\* some vertex declares its parameter n as REQUIRED
HasRequiringDependent(n) ==
    \E m \in DOMAIN graph :
        n \in DOMAIN graph[m].input_types /\ graph[m].input_types[n][2] = REQUIRED

\* the dependents of n, as the error message lists them
DependentsOf(n) == {m \in DOMAIN graph : n \in DOMAIN graph[m].input_types}

SeqRange(s) == {s[i] : i \in 1..Len(s)}

\* msgs holds a required-input error naming n and its dependents
ReportsRequired(msgs, n) ==
    \E i \in 1..Len(msgs) :
        msgs[i].kind = "Required" /\ msgs[i].name = n
        /\ SeqRange(msgs[i].nodes) = DependentsOf(n)

\* msgs holds a type-mismatch error for n
ReportsType(msgs, n) ==
    \E i \in 1..Len(msgs) :
        msgs[i].kind = "Type" /\ msgs[i].name = n
        /\ msgs[i].type = graph[n].type /\ msgs[i].got = all_inputs[n]

\* what the caller sees of the errors: the list being built, the raised list
Reported(n, Reports(_, _)) ==
    /\ Reports(errors, n)
    /\ pc = "error" => Reports(errMsgs, n)

NotReported(n, Reports(_, _)) == ~Reports(errors, n) /\ ~Reports(errMsgs, n)

\* C1: a user node missing from config + inputs yields a required-input error
\* naming it and its dependents iff some dependent declares it REQUIRED; when
\* every consumer has a default, or there is no consumer, it yields no error.
C1_RequiredInputEnforcement ==
    InValidation =>
        \A n \in Examined :
            n \notin DOMAIN all_inputs =>
                /\ HasRequiringDependent(n) => Reported(n, ReportsRequired)
                /\ ~HasRequiringDependent(n) => NotReported(n, ReportsRequired)

\* a call raised: one missing leaf is reported, another missing leaf whose only
\* consumer has a default is not
C1_Witness ==
    /\ pc = "error" /\ errKind = "validation"
    /\ \E n \in CurUserNodes :
         n \notin DOMAIN all_inputs /\ HasRequiringDependent(n)
         /\ ReportsRequired(errMsgs, n)
    /\ \E n \in CurUserNodes :
         n \notin DOMAIN all_inputs /\ DependentsOf(n) # {}
         /\ ~HasRequiringDependent(n) /\ ~ReportsRequired(errMsgs, n)

\* C2 as stated: every supplied value failing check_input_type yields a
\* type-mismatch error, no value exempt.
C2_EverySuppliedValueChecked ==
    InValidation =>
        \A n \in Examined :
            (n \in DOMAIN all_inputs /\ ~check_input_type(graph[n].type, all_inputs[n]))
                => Reported(n, ReportsType)

\* C2 amended: a supplied value other than None yields a type-mismatch error
\* iff check_input_type rejects it; a supplied None is never checked and
\* yields no error.
C2_NonNoneValueChecked ==
    InValidation =>
        \A n \in Examined :
            n \in DOMAIN all_inputs =>
                IF all_inputs[n] # NoneVal /\ ~check_input_type(graph[n].type, all_inputs[n])
                THEN Reported(n, ReportsType)
                ELSE NotReported(n, ReportsType)

\* a call raised: a wrongly typed value is reported, a None next to it is not
C2_Witness ==
    /\ pc = "error" /\ errKind = "validation"
    /\ \E n \in CurUserNodes :
         n \in DOMAIN all_inputs /\ all_inputs[n] = StrVal /\ ReportsType(errMsgs, n)
    /\ \E n \in CurUserNodes :
         n \in DOMAIN all_inputs /\ all_inputs[n] = NoneVal /\ ~ReportsType(errMsgs, n)

\* the user nodes that violate a requirement, given the combined inputs
Violating(unodes, all) ==
    {n \in unodes :
        \/ n \notin DOMAIN all /\ HasRequiringDependent(n)
        \/ n \in DOMAIN all /\ all[n] # NoneVal /\ all[n].tag # graph[n].type}

\* the names of a set, in lexicographic order
InOrder(S) == SelectSeq(NameOrder, LAMBDA n : n \in S)

\* the messages for the violating nodes, in sorted order
ExpectedMessages(unodes, all) ==
    LET bad == Violating(unodes, all)
        req == InOrder({n \in bad : n \notin DOMAIN all})
        typ == InOrder({n \in bad : n \in DOMAIN all})
    IN [i \in 1..Len(req) |-> required_error(graph, req[i])]
       \o [i \in 1..Len(typ) |-> type_error(graph, typ[i], all[typ[i]])]

\* C3: validate_inputs goes through every user node before raising; with
\* violations it raises one error whose count is the number of violating nodes
\* and whose messages are sorted, whatever the iteration order; with none it
\* raises nothing.
C3_CollectedSortedErrors ==
    /\ (pc = "error" /\ errKind = "validation") =>
          /\ pending = {}
          /\ Violating(CurUserNodes, all_inputs) # {}
          /\ errCount = Cardinality(Violating(CurUserNodes, all_inputs))
          /\ errMsgs = ExpectedMessages(CurUserNodes, all_inputs)
    /\ (pc = "vloop" /\ pending = {} /\ Violating(CurUserNodes, all_inputs) = {}) =>
          errors = <<>>
    /\ pc \in {"display", "memo"} => Violating(CurUserNodes, all_inputs) = {}

\* a call raised two messages that the loop had collected in the other order
C3_Witness ==
    /\ pc = "error" /\ errKind = "validation"
    /\ errCount = 2
    /\ errors # errMsgs

\* the running call's runtime inputs share a key with config
Clashing == DOMAIN config \cap DOMAIN CurInputs # {}

\* C4: a call whose runtime inputs share a key with config fails with an error
\* and builds no combined mapping; with disjoint keys the combined mapping is
\* the union of both.
C4_ConfigInputClash ==
    /\ (entry \in {"execute", "visualize_execution"} /\ Clashing) =>
          /\ \/ pc \in {"upstream", "validate"}
             \/ pc = "error" /\ errKind = "clash"
          /\ all_inputs = EmptyMap
    /\ pc = "vloop" =>
          /\ DOMAIN all_inputs = DOMAIN config \cup DOMAIN CurInputs
          /\ \A k \in DOMAIN config : all_inputs[k] = config[k]
          /\ \A k \in DOMAIN CurInputs : all_inputs[k] = CurInputs[k]

\* a call was rejected because of a key in both config and runtime inputs
C4_Witness ==
    /\ pc = "error" /\ errKind = "clash"
    /\ Clashing

----------------------------------------------------------------------------
(* Properties of raw_execute *)

\* some compute has been invoked or the memo has been written
ComputationBegun ==
    \/ pc = "exec"
    \/ memo # EmptyMap
    \/ \E n \in DOMAIN graph : computeCount[n] > 0 \/ writes[n] > 0

RECURSIVE RequiredReach(_)
\* the least set holding S and every REQUIRED parameter of its members
RequiredReach(S) ==
    LET next == S \cup UNION {required_dependencies(graph, n) : n \in S}
    IN IF next = S THEN S ELSE RequiredReach(next)

\* C5: raw_execute computes the closure, then validates, then computes: once
\* any compute has run or the memo exists, the closure is complete and
\* validation has passed with no violation; a call that ends in a validation
\* error has invoked no compute and written no memo.
C5_ValidateBeforeCompute ==
    /\ ComputationBegun =>
          /\ validated
          /\ todo = {} /\ nodes # {}
          /\ ~(DOMAIN config \cap DOMAIN inputs # {})
          /\ Violating(user_nodes, config @@ inputs) = {}
    /\ validated => (nodes # {} /\ final_vars \subseteq nodes)
    /\ (pc = "error" /\ errKind \in {"validation", "clash"}) =>
          /\ memo = EmptyMap /\ processed = {}
          /\ \A n \in DOMAIN graph : computeCount[n] = 0 /\ writes[n] = 0

\* an execute call whose closure holds a vertex with a compute ended in a
\* validation error
C5_Witness ==
    /\ entry = "execute" /\ pc = "error" /\ errKind = "validation"
    /\ \E n \in nodes : ~graph[n].user_defined
    /\ \A n \in DOMAIN graph : computeCount[n] = 0

\* C6 as stated: a required leaf absent from config and runtime inputs but
\* present in overrides passes validation, so no raised required-input error
\* names an overridden leaf.
C6_OverrideSatisfiesLeaf ==
    (entry = "execute" /\ pc = "error" /\ errKind = "validation") =>
        \A i \in 1..Len(errMsgs) :
            errMsgs[i].kind = "Required" => errMsgs[i].name \notin DOMAIN overrides

\* C7: within one call each compute is invoked at most once and each name is
\* written to the memo at most once; a vertex of the closure that has a compute
\* and no override is computed exactly once by the end of the call; the memo
\* starts empty, holding only what this call has handled.
C7_Memoization ==
    /\ \A n \in DOMAIN graph : computeCount[n] <= 1 /\ writes[n] <= 1
    /\ DOMAIN memo \subseteq processed
    /\ \A n \in DOMAIN memo : writes[n] = 1
    /\ (pc = "done" /\ entry = "execute") =>
          \A n \in nodes :
              (~graph[n].user_defined /\ n \notin DOMAIN overrides) => computeCount[n] = 1

\* a call returned two requested vertices that both depend on a vertex computed once
C7_Witness ==
    /\ pc = "done" /\ entry = "execute"
    /\ \E x \in nodes :
         /\ computeCount[x] = 1
         /\ Cardinality({m \in final_vars : x \in dependencies(graph, m)}) >= 2
         /\ \A m \in final_vars : computeCount[m] = 1

C9_MinimalClosure ==
    /\ pc = "upstream" => visited \subseteq RequiredReach(final_vars)
    /\ (pc = "upstream" /\ todo = {}) => visited = RequiredReach(final_vars)
    /\ (entry = "execute" /\ pc \notin {"idle", "upstream"}) =>
          nodes = RequiredReach(final_vars)

\* chain a -> b -> c with unrelated d: requesting c gave a, b, c
C9_Witness ==
    /\ graph = ChainGraph /\ final_vars = {"c"}
    /\ entry = "execute" /\ pc = "validate"
    /\ nodes = {"a", "b", "c"}

\* C10 as stated: no call of execute fails with a cycle error, whatever its
\* arguments.
C10_NoCycleErrorInExecute ==
    ~(entry = "execute" /\ pc = "error" /\ errKind = "cycle")

\* C10 amended: has_cycles returns a boolean and never raises; a call of
\* execute fails with a cycle error only in the deprecated display_graph=True
\* flow, never with display_graph false.
C10_CycleErrorOnlyInDisplayFlow ==
    /\ (pc = "error" /\ errKind = "cycle") =>
          /\ entry = "execute" /\ display_graph
          /\ graph_has_cycles(graph, nodes, user_nodes)
    /\ entry = "has_cycles" => pc # "error"
    /\ (entry = "has_cycles" /\ pc = "done") =>
          cycles = (\E n \in RequiredReach(final_vars) :
                       n \in reachable(graph, RequiredReach(final_vars),
                                       dependencies(graph, n) \cap RequiredReach(final_vars)))

\* an execute call with display_graph false ran on a cyclic closure and ended
\* without a cycle error
C10_Witness ==
    /\ entry = "execute" /\ ~display_graph
    /\ graph_has_cycles(graph, nodes, user_nodes)
    /\ pc = "error" /\ errKind = "execution"

====
